---------------------------- MODULE Spec2Model ----------------------------
(***************************************************************************)
(* Model of circuit_optimization.py: make_circuit_lp (the encoder of a     *)
(* truth table and a gate sequence into a 0/1 linear program, after        *)
(* Muroga) and solve_circuit_lp (the driver that runs SCIP on the .lp file *)
(* and decodes its log).                                                   *)
(*                                                                         *)
(* Three specifications share the variables:                               *)
(*   Spec          make_circuit_lp on bounded inputs, followed by the      *)
(*                 solver's choice of a 0/1 assignment satisfying the      *)
(*                 emitted constraints;                                    *)
(*   SpecScenario  the same steps on the documented inputs                 *)
(*                 (truth 01010011, four gates);                           *)
(*   SpecSolve     solve_circuit_lp: files, solver run, log decoding.      *)
(***************************************************************************)
EXTENDS Integers, Sequences, FiniteSets, TLC

VARIABLES
    (* make_circuit_lp *)
    truthArg,   \* argument truth: the string, as a sequence of characters
    gatesArg,   \* argument gates: the names between the spaces of the string
    pc,         \* position in make_circuit_lp / the solver
    exc,        \* the exception that ended the call ("" when none)
    n, truth, gates, R, A,          \* locals of lines 56-61
    table,      \* the assignment matrix of lines 63-64
    U, V, P, r, \* the nested lists of variables of lines 67-89
    k,          \* the loop variable k, which outlives its loops
    objective,  \* M.objective: the variables summed, each with coefficient 1
    cons,       \* the constraints added to M, in order
    order,      \* the solver's variable blocks, in the order it assigns them
    due,        \* per block, the constraints complete once it is assigned
    asg,        \* the solver's (partial) 0/1 assignment
    pos,        \* the number of variable blocks the solver has assigned
    (* solve_circuit_lp *)
    spc,        \* position in solve_circuit_lp
    filenameArg, verbose, delete_lp, delete_log,   \* its arguments
    filename,   \* the local filename after lines 200-203
    fs,         \* the files on disk: path -> content
    scipLog,    \* what SCIP wrote in this invocation: <<lines>> or <<>>
    rest,       \* the lines of the open log file not yet read
    connect,    \* the list connect of line 215
    sexc        \* the exception that ended solve_circuit_lp ("" when none)

makeVars  == <<truthArg, gatesArg, pc, exc, n, truth, gates, R, A, table,
               U, V, P, r, k, objective, cons, order, due, asg, pos>>
solveVars == <<spc, filenameArg, verbose, delete_lp, delete_log, filename,
               fs, scipLog, rest, connect, sexc>>
vars      == <<makeVars, solveVars>>

-----------------------------------------------------------------------------
(* Bounds of the explored inputs.                                          *)

\* largest n = log2(len(truth)) of an explored truth table
MaxN == 2
\* largest A = n + R of an explored instance
MaxA == 4

-----------------------------------------------------------------------------
(* Python and numpy primitives used by make_circuit_lp.                    *)

\* The result of an indexing: <<element>>, or <<>> when Python raises
\* IndexError.
Some(x) == <<x>>
Failed == <<>>
Ok(opt) == Len(opt) = 1

RECURSIVE Pow2(_)
Pow2(e) == IF e = 0 THEN 1 ELSE 2 * Pow2(e - 1)

\* int(np.log2(len)) for len >= 1: the exponent of the largest power of two
\* not above len.
RECURSIVE IntLog2(_)
IntLog2(len) == IF len <= 1 THEN 0 ELSE 1 + IntLog2(len \div 2)

\* int(i) for a character i of the truth string
CharToInt(c) == IF c = "1" THEN 1 ELSE 0

\* 0 if i == 'NOT' else -1
GateMarkerMutant(name) == -1
GateMarker(name) == IF name = "NOT" THEN 0 ELSE -1

\* list(product([0,1], repeat=m)): the tuples in lexicographic order, the
\* last position changing fastest.
RECURSIVE Product(_)
Product(m) ==
    IF m = 0 THEN << <<>> >>
    ELSE LET prev == Product(m - 1)
         IN  [idx \in 1..(2 * Len(prev)) |->
                 Append(prev[(idx + 1) \div 2], (idx + 1) % 2)]

\* np.fliplr: every row reversed
FliplrMutant(m) == m
Fliplr(m) == [row \in 1..Len(m) |->
                 [c \in 1..Len(m[row]) |-> m[row][Len(m[row]) + 1 - c]]]

\* s[idx] of a Python list (0-based, negative indices count from the end)
PyIndex(s, idx) ==
    IF idx >= 0 /\ idx < Len(s) THEN Some(s[idx + 1])
    ELSE IF idx < 0 /\ -idx <= Len(s) THEN Some(s[Len(s) + idx + 1])
    ELSE Failed

\* a[i][j] of nested Python lists, and a[i][j][l]
PyIndex2(s, i, j) ==
    LET a == PyIndex(s, i) IN IF Ok(a) THEN PyIndex(a[1], j) ELSE Failed
PyIndex3(s, i, j, l) ==
    LET a == PyIndex2(s, i, j) IN IF Ok(a) THEN PyIndex(a[1], l) ELSE Failed

\* table[row, col] of the numpy array (0-based)
TableAt(row, col) == PyIndex2(table, row, col)

-----------------------------------------------------------------------------
(* Variable lists, lines 66-89.  A variable is named by the tuple of the   *)
(* fields of its name: u.el.k, v.i.k, p.k.j, r.i.k.j.                      *)

AllocU == [el \in 1..n |-> [kk \in 1..R |-> <<"u", el, kk>>]]

AllocVMutant == [kk \in 1..R |-> [i \in 1..kk |-> <<"v", i, kk>>]]
AllocV == [kk \in 1..R |-> [i \in 1..(kk - 1) |-> <<"v", i, kk>>]]

AllocP == [kk \in 1..(R - 1) |-> [j \in 1..Pow2(n) |-> <<"p", kk, j>>]]

AllocR == [kk \in 1..R |-> [i \in 1..(kk - 1) |->
              [j \in 1..Pow2(n) |-> <<"r", i, kk, j>>]]]

RECURSIVE Flatten(_)
Flatten(ss) == IF Len(ss) = 0 THEN <<>> ELSE Head(ss) \o Flatten(Tail(ss))

Range(s) == {s[x] : x \in DOMAIN s}

\* the variables added to M so far
Allocated == Range(Flatten(U)) \cup Range(Flatten(V)) \cup Range(Flatten(P))
             \cup Range(Flatten(Flatten(r)))

-----------------------------------------------------------------------------
(* Linear expressions and constraints.  A term is <<coefficient, variable>>*)
(* and a constraint  lhs + lhsc  sense  rhs + rhsc, kept as written.       *)

\* c * x, where the coefficient and the variable each come from an
\* indexing
Term(c, x) == <<c, x>>

U_(el, kk) == PyIndex2(U, el - 1, kk - 1)        \* U[el-1][k-1]
V_(kk, i) == PyIndex2(V, kk - 1, i - 1)          \* V[k-1][i-1]
P_(kk, j) == PyIndex2(P, kk - 1, j - 1)          \* P[k-1][j-1]
R_(kk, i, j) == PyIndex3(r, kk - 1, i - 1, j - 1) \* r[k-1][i-1][j-1]

\* xsum(table[j-1,el-1]*U[el-1][k-1] for el in range(1,n+1))
\*   + xsum(r[k-1][i-1][j-1] for i in range(1,k)),   j 1-based
GateSum(kk, j) ==
    [el \in 1..n |-> Term(TableAt(j - 1, el - 1), U_(el, kk))]
    \o [i \in 1..(kk - 1) |-> Term(Some(1), R_(kk, i, j))]

\* an index out of range was met while the expression was built
Raises(terms) ==
    \E x \in DOMAIN terms : ~Ok(terms[x][1]) \/ ~Ok(terms[x][2])

\* the terms <<coefficient, variable>> of an expression built without error
Built(terms) == [x \in DOMAIN terms |-> <<terms[x][1][1], terms[x][2][1]>>]
Negated(terms) == [x \in DOMAIN terms |-> <<-terms[x][1], terms[x][2]>>]

\* A constraint as it is being built: lhs and rhs hold terms whose parts
\* come from indexings, sign is -1 when the code negates the sum, g holds
\* the gates[...] lookup of the right-hand side (Some(0) when there is none)
\* and rhsc(m) the constant of the right-hand side given the marker m.
Con(kind, kk, i, j, sign, lhs, sense, g, rhsc, rhs) ==
    [kind |-> kind, k |-> kk, i |-> i, j |-> j, sign |-> sign, lhs |-> lhs,
     sense |-> sense, g |-> g, rhsc |-> rhsc, rhs |-> rhs]

RaisesCon(c) == Raises(c.lhs) \/ Raises(c.rhs) \/ ~Ok(c.g)

\* the constraint added to M:  lhs  sense  rhsc + rhs
BuiltCon(c) ==
    [kind |-> c.kind, k |-> c.k, i |-> c.i, j |-> c.j,
     lhs |-> IF c.sign = -1 THEN Negated(Built(c.lhs)) ELSE Built(c.lhs),
     sense |-> c.sense, rhsc |-> c.rhsc, rhs |-> Built(c.rhs)]

\* the constraints of a loop added before the first one that raises
RECURSIVE Emitted(_)
Emitted(raw) ==
    IF Len(raw) = 0 \/ RaisesCon(Head(raw)) THEN <<>>
    ELSE <<BuiltCon(Head(raw))>> \o Emitted(Tail(raw))

AnyRaises(raw) == \E x \in DOMAIN raw : RaisesCon(raw[x])

\* gates[idx]; the marker read, or 0 when the lookup raises
GateAt(idx) == PyIndex(gates, idx)
MarkerOf(g) == IF Ok(g) THEN g[1] ELSE 0

\* the big-M constant of line 61
BigMMutant == n
BigM == n + R

\* lines 98-101:  -sum >= gates[k-1] - A*(1-P[k-1][j-1])
GateOn(kk, j) ==
    LET g == GateAt(kk - 1)
    IN  Con("gate_on", kk, 0, j, -1, GateSum(kk, j), ">=", g,
            MarkerOf(g) - A, <<Term(Some(A), P_(kk, j))>>)

\* lines 102-105:  sum >= 1 - gates[k-1] - A*P[k-1][j-1]
GateOff(kk, j) ==
    LET g == GateAt(kk - 1)
    IN  Con("gate_off", kk, 0, j, 1, GateSum(kk, j), ">=", g,
            1 - MarkerOf(g), <<Term(Some(-A), P_(kk, j))>>)

\* lines 97-105: for k, j in product(range(1,R), range(1,2**n+1))
GateCons ==
    Flatten([x \in 1..((R - 1) * Pow2(n)) |->
        LET kk == ((x - 1) \div Pow2(n)) + 1
            j  == ((x - 1) % Pow2(n)) + 1
        IN  <<GateOn(kk, j), GateOff(kk, j)>>])

\* the gate whose marker bounds the final gate's sum: gates[k-1] with the
\* k left by the loop of line 97
FinalMarkerIndex == k - 1

\* lines 108-116 for the 0-based row j0 with truth value val
FinalCon(j0, val) ==
    LET g == GateAt(FinalMarkerIndex)
    IN  IF val = 1
        THEN Con("final1", R, 0, j0 + 1, -1, GateSum(R, j0 + 1), ">=", g,
                 MarkerOf(g), <<>>)
        ELSE Con("final0", R, 0, j0 + 1, 1, GateSum(R, j0 + 1), ">=", g,
                 1 - MarkerOf(g), <<>>)

\* lines 107-116: for j, val in enumerate(truth)
FinalCons == [x \in 1..Len(truth) |-> FinalCon(x - 1, truth[x])]

\* line 121:  P[i-1][j-1] + V[k-1][i-1] - r[k-1][i-1][j-1] <= 1
AndLe(kk, j, i) ==
    Con("and_le", kk, i, j, 1,
        <<Term(Some(1), P_(i, j)), Term(Some(1), V_(kk, i)),
          Term(Some(-1), R_(kk, i, j))>>, "<=", Some(0), 1, <<>>)

\* line 122:  P[i-1][j-1] + V[k-1][i-1] - 2*r[k-1][i-1][j-1] >= 0
AndGe(kk, j, i) ==
    Con("and_ge", kk, i, j, 1,
        <<Term(Some(1), P_(i, j)), Term(Some(1), V_(kk, i)),
          Term(Some(-2), R_(kk, i, j))>>, ">=", Some(0), 0, <<>>)

\* lines 119-122: for k, j in product(range(2,R+1), range(1,2**n+1)):
\*                    for i in range(1,k)
AndCons ==
    Flatten([x \in 1..((R - 1) * Pow2(n)) |->
        LET kk == ((x - 1) \div Pow2(n)) + 2
            j  == ((x - 1) % Pow2(n)) + 1
        IN  Flatten([i \in 1..(kk - 1) |->
                        <<AndLe(kk, j, i), AndGe(kk, j, i)>>])])

\* lines 125-128:  sum_el U[el-1][k-1] + sum_i V[k-1][i-1] <= 1 - gates[k-1]
FanInConMutant(kk) ==
    LET g == GateAt(kk - 1)
    IN  Con("fanin", kk, 0, 0, 1,
            [el \in 1..n |-> Term(Some(1), U_(el, kk))]
            \o [i \in 1..(kk - 1) |-> Term(Some(1), V_(kk, i))],
            "<=", g, 2, <<>>)
FanInCon(kk) ==
    LET g == GateAt(kk - 1)
    IN  Con("fanin", kk, 0, 0, 1,
            [el \in 1..n |-> Term(Some(1), U_(el, kk))]
            \o [i \in 1..(kk - 1) |-> Term(Some(1), V_(kk, i))],
            "<=", g, 1 - MarkerOf(g), <<>>)

\* lines 124-128: for k in range(1,R+1)
FanInCons == [kk \in 1..R |-> FanInCon(kk)]

\* lines 92-94: the variables of Uobj + Vobj
ObjectiveVars == Flatten(U) \o Flatten(V)

-----------------------------------------------------------------------------
(* make_circuit_lp, one action per statement group.  pc names the line the *)
(* call is about to execute.                                               *)

Raise(e) == /\ pc' = "raised"
            /\ exc' = e

\* lines 56-61
ParseArgs ==
    /\ pc = "l56"
    /\ IF Len(truthArg) = 0
       THEN \* np.log2(0) is -inf and int(-inf) raises OverflowError
            /\ Raise("OverflowError")
            /\ UNCHANGED <<n, truth, gates, R, A>>
       ELSE /\ n' = IntLog2(Len(truthArg))
            /\ truth' = [x \in 1..Len(truthArg) |-> CharToInt(truthArg[x])]
            /\ gates' = [x \in 1..Len(gatesArg) |-> GateMarker(gatesArg[x])]
            /\ R' = Len(gatesArg)
            /\ A' = BigM'
            /\ pc' = "l63"
            /\ exc' = exc
    /\ UNCHANGED <<truthArg, gatesArg, table, U, V, P, r, k, objective,
                   cons, order, due, asg, pos, solveVars>>

\* lines 63-64
BuildTable ==
    /\ pc = "l63"
    /\ table' = Fliplr(Product(n))
    /\ pc' = "l67"
    /\ UNCHANGED <<truthArg, gatesArg, exc, n, truth, gates, R, A, U, V, P,
                   r, k, objective, cons, order, due, asg, pos, solveVars>>

\* lines 67-71
AllocateU ==
    /\ pc = "l67"
    /\ U' = AllocU
    /\ k' = IF n >= 1 THEN R ELSE k
    /\ pc' = "l72"
    /\ UNCHANGED <<truthArg, gatesArg, exc, n, truth, gates, R, A, table,
                   V, P, r, objective, cons, order, due, asg, pos, solveVars>>

\* lines 72-76
AllocateV ==
    /\ pc = "l72"
    /\ V' = AllocV
    /\ k' = R
    /\ pc' = "l77"
    /\ UNCHANGED <<truthArg, gatesArg, exc, n, truth, gates, R, A, table,
                   U, P, r, objective, cons, order, due, asg, pos, solveVars>>

\* lines 77-81
AllocateP ==
    /\ pc = "l77"
    /\ P' = AllocP
    /\ k' = IF R >= 2 THEN R - 1 ELSE k
    /\ pc' = "l82"
    /\ UNCHANGED <<truthArg, gatesArg, exc, n, truth, gates, R, A, table,
                   U, V, r, objective, cons, order, due, asg, pos, solveVars>>

\* lines 82-89
AllocateR ==
    /\ pc = "l82"
    /\ r' = AllocR
    /\ k' = R
    /\ pc' = "l92"
    /\ UNCHANGED <<truthArg, gatesArg, exc, n, truth, gates, R, A, table,
                   U, V, P, objective, cons, order, due, asg, pos, solveVars>>

\* lines 92-94 (the generator expressions have a k of their own)
SetObjective ==
    /\ pc = "l92"
    /\ objective' = ObjectiveVars
    /\ pc' = "l97"
    /\ UNCHANGED <<truthArg, gatesArg, exc, n, truth, gates, R, A, table,
                   U, V, P, r, k, cons, order, due, asg, pos, solveVars>>

\* a loop that adds the constraints raw to M and goes on at line next,
\* or stops at the first constraint whose construction raises
AddConstraints(raw, next) ==
    /\ cons' = cons \o Emitted(raw)
    /\ IF AnyRaises(raw)
       THEN Raise("IndexError")
       ELSE pc' = next /\ exc' = exc

\* lines 97-105
GateConstraints ==
    /\ pc = "l97"
    /\ AddConstraints(GateCons, "l107")
    /\ k' = IF R >= 2 THEN R - 1 ELSE k
    /\ UNCHANGED <<truthArg, gatesArg, n, truth, gates, R, A, table,
                   U, V, P, r, objective, order, due, asg, pos, solveVars>>

\* lines 107-116
FinalConstraints ==
    /\ pc = "l107"
    /\ AddConstraints(FinalCons, "l119")
    /\ UNCHANGED <<truthArg, gatesArg, n, truth, gates, R, A, table,
                   U, V, P, r, k, objective, order, due, asg, pos, solveVars>>

\* lines 119-122
AndConstraints ==
    /\ pc = "l119"
    /\ AddConstraints(AndCons, "l124")
    /\ k' = IF R >= 2 THEN R ELSE k
    /\ UNCHANGED <<truthArg, gatesArg, n, truth, gates, R, A, table,
                   U, V, P, r, objective, order, due, asg, pos, solveVars>>

\* lines 124-128
FanInConstraints ==
    /\ pc = "l124"
    /\ AddConstraints(FanInCons, "l130")
    /\ k' = R
    /\ UNCHANGED <<truthArg, gatesArg, n, truth, gates, R, A, table,
                   U, V, P, r, objective, order, due, asg, pos, solveVars>>

\* the characters of a file name
CircuitName == <<"c", "i", "r", "c", "u", "i", "t">>
LpSuffix == <<".", "l", "p">>
LogSuffix == <<".", "l", "o", "g">>

\* None, the default of the argument filename
None == <<>>

EmptyFs == [path \in {} |-> [by |-> "", lines |-> <<>>]]
WriteFile(files, path, content) ==
    [q \in DOMAIN files \cup {path} |->
        IF q = path THEN content ELSE files[q]]
\* os.system("rm path")
RemoveFile(files, path) == [q \in DOMAIN files \ {path} |-> files[q]]

\* lines 130-133: M.write(f'{filename}.lp'), or M.write('circuit.lp')
LpWritten ==
    IF filename # None THEN filename[1] \o LpSuffix
    ELSE CircuitName \o LpSuffix

WriteLp ==
    /\ pc = "l130"
    /\ fs' = WriteFile(fs, LpWritten, [by |-> "make", lines |-> <<>>])
    /\ pc' = "written"
    /\ UNCHANGED <<truthArg, gatesArg, exc, n, truth, gates, R, A, table,
                   U, V, P, r, k, objective, cons, order, due, asg, pos,
                   spc, filenameArg, verbose, delete_lp, delete_log,
                   filename, scipLog, rest, connect, sexc>>

-----------------------------------------------------------------------------
(* The solver (lines 210-213 run SCIP on the written file).  It is         *)
(* modelled by what it may return: any 0/1 assignment of the allocated     *)
(* variables that satisfies every constraint of the file.  The assignment  *)
(* is built block by block; a partial assignment is dropped as soon as a   *)
(* constraint all of whose variables are assigned is violated.             *)

RECURSIVE SumTerms(_, _)
SumTerms(terms, a) ==
    IF Len(terms) = 0 THEN 0
    ELSE Head(terms)[1] * a[Head(terms)[2]] + SumTerms(Tail(terms), a)

ConVars(c) == {c.lhs[x][2] : x \in DOMAIN c.lhs}
              \cup {c.rhs[x][2] : x \in DOMAIN c.rhs}

Holds(c, a) ==
    IF c.sense = ">="
    THEN SumTerms(c.lhs, a) >= c.rhsc + SumTerms(c.rhs, a)
    ELSE SumTerms(c.lhs, a) <= c.rhsc + SumTerms(c.rhs, a)

\* the connections into gate kk
WiringBlock(kk) ==
    {x \in Allocated : x[1] \in {"u", "v"} /\ x[3] = kk}
\* the auxiliary variables of gate kk on row j
RowBlock(kk, j) ==
    {x \in Allocated : \/ x[1] = "p" /\ x[2] = kk /\ x[3] = j
                       \/ x[1] = "r" /\ x[3] = kk /\ x[4] = j}

\* the order in which the variables are assigned: the wiring gate by gate,
\* then row by row the auxiliary variables gate by gate
Blocks ==
    LET all == [kk \in 1..R |-> WiringBlock(kk)]
               \o [x \in 1..(Pow2(n) * R) |->
                      RowBlock(((x - 1) % R) + 1, ((x - 1) \div R) + 1)]
    IN  SelectSeq(all, LAMBDA b : b # {})

\* the constraints that become complete with block x of blocks: those with
\* a variable in it and none in a later block
DueAt(blocks, x) ==
    LET later == UNION {blocks[y] : y \in (x + 1)..Len(blocks)}
    IN  SelectSeq([c \in DOMAIN cons |-> c],
                  LAMBDA c : /\ ConVars(cons[c]) \cap blocks[x] # {}
                             /\ ConVars(cons[c]) \cap later = {})

\* the solver reads the file
SolverLoad ==
    /\ pc = "written"
    /\ order' = Blocks
    /\ due' = [x \in 1..Len(Blocks) |-> DueAt(Blocks, x)]
    /\ pc' = "solving"
    /\ UNCHANGED <<truthArg, gatesArg, exc, n, truth, gates, R, A,
                   table, U, V, P, r, k, objective, cons, asg, pos,
                   solveVars>>

SolverAssign ==
    /\ pc = "solving"
    /\ pos < Len(order)
    /\ LET b == order[pos + 1]
       IN  \E f \in [b -> {0, 1}] :
             LET a == [x \in DOMAIN asg \cup b |->
                          IF x \in b THEN f[x] ELSE asg[x]]
             IN  /\ \A x \in DOMAIN due[pos + 1] :
                       Holds(cons[due[pos + 1][x]], a)
                 /\ asg' = a
    /\ pos' = pos + 1
    /\ UNCHANGED <<truthArg, gatesArg, pc, exc, n, truth, gates, R, A,
                   table, U, V, P, r, k, objective, cons, order, due,
                   solveVars>>

SolverDone ==
    /\ pc = "solving"
    /\ pos = Len(order)
    /\ DOMAIN asg = Allocated
    /\ \A x \in DOMAIN cons :
          ConVars(cons[x]) \subseteq DOMAIN asg /\ Holds(cons[x], asg)
    /\ pc' = "solved"
    /\ UNCHANGED <<truthArg, gatesArg, exc, n, truth, gates, R, A,
                   table, U, V, P, r, k, objective, cons, order, due, asg,
                   pos, solveVars>>

-----------------------------------------------------------------------------
(* Specification of make_circuit_lp and the solver on bounded inputs.      *)

\* the explored lengths of truth: 0, the powers of two up to 2^MaxN and,
\* after each, the next length
Lens == {0} \cup {len \in 1..(Pow2(MaxN) + 1) :
                     len <= Pow2(IntLog2(len)) + 1}

Strings(len) == [1..len -> {"0", "1"}]

GateSeqs(m) == UNION {[1..len -> {"NOT", "NAND"}] : len \in 1..m}

SolveIdle ==
    /\ spc = "idle"
    /\ filenameArg = None
    /\ verbose = FALSE
    /\ delete_lp = TRUE
    /\ delete_log = TRUE
    /\ filename = None
    /\ fs = EmptyFs
    /\ scipLog = None
    /\ rest = <<>>
    /\ connect = <<>>
    /\ sexc = ""

MakeStart(t, g, at) ==
    /\ truthArg = t
    /\ gatesArg = g
    /\ pc = at
    /\ exc = ""
    /\ n = 0
    /\ truth = <<>>
    /\ gates = <<>>
    /\ R = 0
    /\ A = 0
    /\ table = <<>>
    /\ U = <<>>
    /\ V = <<>>
    /\ P = <<>>
    /\ r = <<>>
    /\ k = 0
    /\ objective = <<>>
    /\ cons = <<>>
    /\ order = <<>>
    /\ due = <<>>
    /\ asg = <<>>
    /\ pos = 0

Init ==
    /\ \E len \in Lens : \E t \in Strings(len) :
         \E g \in GateSeqs(MaxA - IntLog2(len)) : MakeStart(t, g, "l56")
    /\ SolveIdle

Next ==
    \/ ParseArgs
    \/ BuildTable
    \/ AllocateU
    \/ AllocateV
    \/ AllocateP
    \/ AllocateR
    \/ SetObjective
    \/ GateConstraints
    \/ FinalConstraints
    \/ AndConstraints
    \/ FanInConstraints
    \/ WriteLp
    \/ SolverLoad
    \/ SolverAssign
    \/ SolverDone

Spec == Init /\ [][Next]_vars
-----------------------------------------------------------------------------
(* The documented scenario: the truth table of the 2x1 multiplexer (lines  *)
(* 7 and 256) with the gates of the default arguments (line 7) and of the  *)
(* test run (line 255).                                                    *)

MuxTruth == <<"0", "1", "0", "1", "0", "0", "1", "1">>
NotFirst == <<"NOT", "NAND", "NAND", "NAND">>
AllNand  == <<"NAND", "NAND", "NAND", "NAND">>

InitScenario ==
    /\ \E g \in {NotFirst, AllNand} : MakeStart(MuxTruth, g, "l56")
    /\ SolveIdle

SpecScenario == InitScenario /\ [][Next]_vars

-----------------------------------------------------------------------------
(* solve_circuit_lp.  spc names the line the call is about to execute.     *)

\* filename[-3:] and filename[:-3] of a Python string
LastThree(str) == SubSeq(str, IF Len(str) > 3 THEN Len(str) - 2 ELSE 1,
                         Len(str))
AllButLastThree(str) == SubSeq(str, 1, Len(str) - 3)

LpPath == filename[1] \o LpSuffix
LogPath == filename[1] \o LogSuffix

\* lines 200-203
NormalizeFilename ==
    /\ spc = "l200"
    /\ LET named == IF filenameArg = None THEN CircuitName
                    ELSE filenameArg[1]
       IN  filename' = IF LastThree(named) = LpSuffix
                       THEN Some(AllButLastThree(named))
                       ELSE Some(named)
    /\ spc' = "l205"
    /\ UNCHANGED <<makeVars, filenameArg, verbose, delete_lp, delete_log,
                   fs, scipLog, rest, connect, sexc>>

\* line 205: the call of make_circuit_lp(truth, gates, filename)
CallMake ==
    /\ spc = "l205"
    /\ pc = "idle"
    /\ pc' = "l56"
    /\ spc' = "in_make"
    /\ UNCHANGED <<truthArg, gatesArg, exc, n, truth, gates, R, A, table,
                   U, V, P, r, k, objective, cons, order, due, asg, pos,
                   filenameArg, verbose, delete_lp, delete_log, filename,
                   fs, scipLog, rest, connect, sexc>>

\* make_circuit_lp returns
MakeReturns ==
    /\ spc = "in_make"
    /\ pc = "written"
    /\ spc' = "l207"
    /\ UNCHANGED <<makeVars, filenameArg, verbose, delete_lp, delete_log,
                   filename, fs, scipLog, rest, connect, sexc>>

\* make_circuit_lp raises: nothing in solve_circuit_lp catches it
MakeRaises ==
    /\ spc = "in_make"
    /\ pc = "raised"
    /\ spc' = "raised"
    /\ sexc' = exc
    /\ UNCHANGED <<makeVars, filenameArg, verbose, delete_lp, delete_log,
                   filename, fs, scipLog, rest, connect>>

\* lines 207-208
RemoveOldLogMutant ==
    /\ spc = "l207"
    /\ fs' = fs
    /\ spc' = "l210"
    /\ UNCHANGED <<makeVars, filenameArg, verbose, delete_lp, delete_log,
                   filename, scipLog, rest, connect, sexc>>
RemoveOldLog ==
    /\ spc = "l207"
    /\ fs' = IF LogPath \in DOMAIN fs THEN RemoveFile(fs, LogPath) ELSE fs
    /\ spc' = "l210"
    /\ UNCHANGED <<makeVars, filenameArg, verbose, delete_lp, delete_log,
                   filename, scipLog, rest, connect, sexc>>

\* The fields of a line of the log, as line.split(' ') gives them.  Only
\* the last field of a line holds its newline.
Marker == "\t(obj:1)\n"
InnerFields == {"u.1.2", "1"}
LastFields == {Marker, "1\n", "u.1.2\n"}

\* the most fields a log holds in all
MaxLogFields == 5

Lines(m) == UNION {{inner \o <<last>> : inner \in [1..(len - 1) -> InnerFields],
                                         last \in LastFields} : len \in 1..m}

RECURSIVE Logs(_)
Logs(m) == {<<>>} \cup UNION {{<<line>> \o t : t \in Logs(m - Len(line))} :
                                line \in Lines(m)}

\* lines 210-213: os.system runs ./scip with or without -q; its exit status
\* is dropped.  SCIP either writes the log, or (no executable, a crash at
\* start) leaves no file.
RunScip ==
    /\ spc = "l210"
    /\ \/ /\ fs' = fs
          /\ scipLog' = None
       \/ \E log \in Logs(MaxLogFields) :
             /\ fs' = WriteFile(fs, LogPath, [by |-> "scip", lines |-> log])
             /\ scipLog' = Some(log)
    /\ spc' = "l215"
    /\ UNCHANGED <<makeVars, filenameArg, verbose, delete_lp, delete_log,
                   filename, rest, connect, sexc>>

\* lines 215-217: connect = [] and open(f'{filename}.log')
OpenLog ==
    /\ spc = "l215"
    /\ connect' = <<>>
    /\ IF LogPath \in DOMAIN fs
       THEN /\ rest' = fs[LogPath].lines
            /\ spc' = "l218"
            /\ sexc' = sexc
       ELSE /\ rest' = rest
            /\ spc' = "raised"
            /\ sexc' = "FileNotFoundError"
    /\ UNCHANGED <<makeVars, filenameArg, verbose, delete_lp, delete_log,
                   filename, fs, scipLog>>

\* int(s) of a field
IsIntLiteral(field) == field \in {"1", "1\n"}
IntOf(field) == 1

HasMarker(line) == \E x \in DOMAIN line : line[x] = Marker

\* lines 218-221: one line of the log
DecodeLine ==
    /\ spc = "l218"
    /\ rest # <<>>
    /\ LET line == Head(rest)
       IN  IF ~HasMarker(line)
           THEN /\ connect' = connect
                /\ spc' = spc
                /\ sexc' = sexc
           ELSE LET value == PyIndex(line, -2)
                IN  IF ~Ok(value)
                    THEN /\ connect' = connect
                         /\ spc' = "raised"
                         /\ sexc' = "IndexError"
                    ELSE IF ~IsIntLiteral(value[1])
                    THEN /\ connect' = connect
                         /\ spc' = "raised"
                         /\ sexc' = "ValueError"
                    ELSE /\ connect' = Append(connect,
                                          <<line[1], IntOf(value[1])>>)
                         /\ spc' = spc
                         /\ sexc' = sexc
    /\ rest' = Tail(rest)
    /\ UNCHANGED <<makeVars, filenameArg, verbose, delete_lp, delete_log,
                   filename, fs, scipLog>>

\* the end of the file ends the loop and the with block
CloseLog ==
    /\ spc = "l218"
    /\ rest = <<>>
    /\ spc' = "l223"
    /\ UNCHANGED <<makeVars, filenameArg, verbose, delete_lp, delete_log,
                   filename, fs, scipLog, rest, connect, sexc>>

\* lines 223-224
DeleteLp ==
    /\ spc = "l223"
    /\ fs' = IF delete_lp THEN RemoveFile(fs, LpPath) ELSE fs
    /\ spc' = "l225"
    /\ UNCHANGED <<makeVars, filenameArg, verbose, delete_lp, delete_log,
                   filename, scipLog, rest, connect, sexc>>

\* lines 225-226
DeleteLog ==
    /\ spc = "l225"
    /\ fs' = IF delete_log THEN RemoveFile(fs, LogPath) ELSE fs
    /\ spc' = "l228"
    /\ UNCHANGED <<makeVars, filenameArg, verbose, delete_lp, delete_log,
                   filename, scipLog, rest, connect, sexc>>

\* line 228
Return ==
    /\ spc = "l228"
    /\ spc' = "returned"
    /\ UNCHANGED <<makeVars, filenameArg, verbose, delete_lp, delete_log,
                   filename, fs, scipLog, rest, connect, sexc>>

\* A solution line as SCIP prints it: name, value, objective coefficient.
SolutionLine == <<"u.1.2", "1", Marker>>

\* the log files an earlier run under either name may have left
OldLogs ==
    LET old == [by |-> "earlier", lines |-> <<SolutionLine>>]
    IN  WriteFile(WriteFile(EmptyFs, CircuitName \o LogSuffix, old),
                  <<"t">> \o LogSuffix, old)

InitSolve ==
    /\ \E t \in {<<>>, <<"1">>, <<"1", "0", "1">>} :
          MakeStart(t, <<"NAND">>, "idle")
    /\ spc = "l200"
    /\ filenameArg \in {None, Some(<<"t">>), Some(<<"t">> \o LpSuffix)}
    /\ verbose \in BOOLEAN
    /\ delete_lp \in BOOLEAN
    /\ delete_log \in BOOLEAN
    /\ filename = None
    /\ fs \in {EmptyFs, OldLogs}
    /\ scipLog = None
    /\ rest = <<>>
    /\ connect = <<>>
    /\ sexc = ""

NextSolve ==
    \/ NormalizeFilename
    \/ CallMake
    \/ ParseArgs
    \/ BuildTable
    \/ AllocateU
    \/ AllocateV
    \/ AllocateP
    \/ AllocateR
    \/ SetObjective
    \/ GateConstraints
    \/ FinalConstraints
    \/ AndConstraints
    \/ FanInConstraints
    \/ WriteLp
    \/ MakeReturns
    \/ MakeRaises
    \/ RemoveOldLog
    \/ RunScip
    \/ OpenLog
    \/ DecodeLine
    \/ CloseLog
    \/ DeleteLp
    \/ DeleteLog
    \/ Return

SpecSolve == InitSolve /\ [][NextSolve]_vars

-----------------------------------------------------------------------------
(* What the claims speak of.                                               *)

IsPow2(len) == len >= 1 /\ Pow2(IntLog2(len)) = len

\* the bit of weight 2^w of x
Bit(x, w) == (x \div Pow2(w)) % 2

\* the connections an assignment switches on
Wiring(a) == {x \in DOMAIN a : x[1] \in {"u", "v"} /\ a[x] = 1}

\* the number of members of s that are in w
RECURSIVE CountIn(_, _)
CountIn(s, w) ==
    IF s = {} THEN 0
    ELSE LET x == CHOOSE y \in s : TRUE
         IN  (IF x \in w THEN 1 ELSE 0) + CountIn(s \ {x}, w)

\* the output of gate kk on row j of the circuit wired by w: 1 iff the
\* number of its connected inputs carrying 1 is at most -marker(kk)
RECURSIVE GateOut(_, _, _)
GateOut(w, kk, j) ==
    LET ones == CountIn({e \in 1..n : table[j][e] = 1},
                        {e \in 1..n : <<"u", e, kk>> \in w})
                + CountIn({i \in 1..(kk - 1) : GateOut(w, i, j) = 1},
                          {i \in 1..(kk - 1) : <<"v", i, kk>> \in w})
    IN  IF ones <= -gates[kk] THEN 1 ELSE 0

\* the number of connections into gate kk
FanIn(w, kk) == Cardinality({x \in w : x[3] = kk})

\* the variables the claims expect to exist
ExpectedVars ==
    {<<"u", e, kk>> : e \in 1..n, kk \in 1..R}
    \cup {x \in {<<"v", i, kk>> : i \in 1..R, kk \in 1..R} : x[2] < x[3]}
    \cup {<<"p", kk, j>> : kk \in 1..(R - 1), j \in 1..Pow2(n)}
    \cup {x \in {<<"r", i, kk, j>> : i \in 1..R, kk \in 1..R,
                                      j \in 1..Pow2(n)} : x[2] < x[3]}

TableBuilt == pc \notin {"l56", "l63"} /\ exc # "OverflowError"
AllocationDone ==
    pc \notin {"l56", "l63", "l67", "l72", "l77", "l82"}
    /\ exc # "OverflowError"

\* the weighted sum S(kk, j) of the claims under assignment a
InputSum(a, kk, j) ==
    CountIn({e \in 1..n : table[j][e] = 1},
            {e \in 1..n : a[<<"u", e, kk>>] = 1})
    + Cardinality({i \in 1..(kk - 1) : a[<<"r", i, kk, j>>] = 1})

\* C1: every assignment satisfying the emitted constraints wires a circuit
\* whose final gate R outputs truth[j] on every input row j.
C1_FinalGateComputesTruth ==
    pc = "solved" =>
        \A j \in 1..Pow2(n) : GateOut(Wiring(asg), R, j) = truth[j]

\* C2: when len(truth) is not a power of two, the call fails before any
\* variable is allocated and never goes on with a truncated n.
C2_MalformedLengthAllocatesNothing ==
    ~IsPow2(Len(truthArg)) =>
        /\ Allocated = {}
        /\ cons = <<>>
        /\ pc \in {"l56", "raised"}

\* C3: in every assignment satisfying the emitted constraints, gate k has
\* at most 1 - marker(k) incoming connections: 1 for NOT, 2 for NAND.
C3_FanInBound ==
    pc = "solved" =>
        \A kk \in 1..R : FanIn(Wiring(asg), kk) <= 1 - gates[kk]

C3_Witness ==
    /\ pc = "solved"
    /\ \E kk \in 1..R : gates[kk] = 0 /\ FanIn(Wiring(asg), kk) = 1
    /\ \E kk \in 1..R : gates[kk] = -1 /\ FanIn(Wiring(asg), kk) = 2

\* C4: every variable the objective or a constraint refers to was
\* allocated; the variables allocated are exactly u[e][k], v[i][k] with
\* i < k, p[k][j] with k < R and r[i][k][j] with i < k; and on a truth table
\* of length 2^n no indexing fails.
C4_IndicesExist ==
    /\ \A x \in DOMAIN cons : ConVars(cons[x]) \subseteq Allocated
    /\ Range(objective) \subseteq Allocated
    /\ AllocationDone => Allocated = ExpectedVars
    /\ IsPow2(Len(truthArg)) => exc = ""

C4_Witness ==
    /\ pc = "written"
    /\ n >= 1
    /\ R >= 3
    /\ \E x \in DOMAIN cons : cons[x].kind = "and_ge" /\ cons[x].k = R
    /\ \E x \in DOMAIN cons : cons[x].kind = "gate_on" /\ cons[x].k = R - 1

\* C9 as stated: the matrix has 2^n rows and n columns, row j is the binary
\* expansion of j-1 and column 1 is the most significant bit.
C9_ColumnOneMostSignificant ==
    (TableBuilt /\ n >= 1) =>
        /\ Len(table) = Pow2(n)
        /\ \A j \in 1..Pow2(n) :
              /\ Len(table[j]) = n
              /\ \A e \in 1..n : table[j][e] = Bit(j - 1, n - e)

\* C9 amended: the matrix has 2^n rows and n columns, row j is the binary
\* expansion of j-1 and column e holds its bit of weight 2^(e-1), so that
\* column 1 is the least significant bit; the final-gate constraint of row j
\* is the one of truth bit j and weighs u[e][R] by that bit.
C9_ColumnOneLeastSignificant ==
    (TableBuilt /\ n >= 1) =>
        /\ Len(table) = Pow2(n)
        /\ \A j \in 1..Pow2(n) :
              /\ Len(table[j]) = n
              /\ \A e \in 1..n : table[j][e] = Bit(j - 1, e - 1)
        /\ \A x \in DOMAIN cons :
              cons[x].kind \in {"final1", "final0"} =>
                 /\ cons[x].kind = IF truth[cons[x].j] = 1 THEN "final1"
                                                           ELSE "final0"
                 /\ \A y \in DOMAIN cons[x].lhs :
                       LET t == cons[x].lhs[y]
                       IN  t[2][1] = "u" =>
                             t[1] = (IF cons[x].kind = "final1" THEN -1
                                     ELSE 1) * Bit(cons[x].j - 1, t[2][2] - 1)

C9_Witness ==
    /\ pc = "written"
    /\ n = 2
    /\ \E x \in DOMAIN cons : cons[x].kind = "final1" /\ cons[x].j = 2
    /\ table[2] = <<1, 0>>

\* every 0/1 assignment of the variables of constraint c that gives
\* variable x the value b
AssignmentsWith(c, x, b) ==
    {a \in [ConVars(c) -> {0, 1}] : a[x] = b}

\* C10: A is n + R; in every assignment satisfying the emitted constraints,
\* r[i][k][j] = v[i][k] * p[i][j], and for every gate k < R and row j,
\* p[k][j] = 1 exactly when S(k,j) <= -marker(k); and the inequality of a
\* pair that A relaxes holds for every 0/1 value of the other variables.
C10_BigMExact ==
    /\ AllocationDone => A = n + R
    /\ pc = "solved" =>
          /\ \A kk \in 1..R : \A i \in 1..(kk - 1) : \A j \in 1..Pow2(n) :
                asg[<<"r", i, kk, j>>]
                   = asg[<<"v", i, kk>>] * asg[<<"p", i, j>>]
          /\ \A kk \in 1..(R - 1) : \A j \in 1..Pow2(n) :
                /\ asg[<<"p", kk, j>>] = 1
                      <=> InputSum(asg, kk, j) <= -gates[kk]
                /\ asg[<<"p", kk, j>>] = 0
                      <=> InputSum(asg, kk, j) >= 1 - gates[kk]
    /\ pc = "written" =>
          \A x \in DOMAIN cons :
             /\ cons[x].kind = "gate_on" =>
                   \A a \in AssignmentsWith(cons[x], cons[x].rhs[1][2], 0) :
                      Holds(cons[x], a)
             /\ cons[x].kind = "gate_off" =>
                   \A a \in AssignmentsWith(cons[x], cons[x].rhs[1][2], 1) :
                      Holds(cons[x], a)

C10_Witness ==
    /\ pc = "solved"
    /\ R >= 3
    /\ \E j \in 1..Pow2(n) :
          /\ asg[<<"r", 1, 2, j>>] = 1
          /\ asg[<<"p", 2, j>>] = 0
    /\ \E j \in 1..Pow2(n) : asg[<<"p", 2, j>>] = 1

-----------------------------------------------------------------------------
(* The documented scenario.                                                *)

\* the multiplexer X3 ? X2 : X1 built from an inverter and three NANDs
MuxNotFirstWiring ==
    {<<"u", 3, 1>>,
     <<"u", 1, 2>>, <<"v", 1, 2>>,
     <<"u", 2, 3>>, <<"u", 3, 3>>,
     <<"v", 2, 4>>, <<"v", 3, 4>>}

\* the same function built from four NANDs
MuxAllNandWiring ==
    {<<"u", 1, 1>>, <<"u", 3, 1>>,
     <<"u", 1, 2>>, <<"v", 1, 2>>,
     <<"u", 2, 3>>, <<"u", 3, 3>>,
     <<"v", 2, 4>>, <<"v", 3, 4>>}

\* the assignment that describes the circuit wired by w: its connections,
\* the outputs of its gates and their products with the connections
CircuitAssignment(w) ==
    [x \in Allocated |->
        IF x[1] \in {"u", "v"} THEN (IF x \in w THEN 1 ELSE 0)
        ELSE IF x[1] = "p" THEN GateOut(w, x[2], x[3])
        ELSE (IF <<"v", x[2], x[3]>> \in w THEN 1 ELSE 0)
             * GateOut(w, x[2], x[4])]

\* the value of the objective under assignment a
RECURSIVE ObjectiveValue(_, _)
ObjectiveValue(obj, a) ==
    IF Len(obj) = 0 THEN 0 ELSE a[Head(obj)] + ObjectiveValue(Tail(obj), a)

Satisfies(a) == \A x \in DOMAIN cons : Holds(cons[x], a)

\* C8: for truth 01010011 the system of NOT NAND NAND NAND is feasible (the
\* seven-connection multiplexer satisfies it), the system of four NANDs is
\* feasible (the eight-connection multiplexer satisfies it), and every
\* assignment satisfying the four-NAND system has an objective above seven,
\* so the minimum of the NOT-first system is strictly the smaller.
C8_NotFirstCheaper ==
    /\ (pc = "written" /\ gatesArg = NotFirst) =>
          LET a == CircuitAssignment(MuxNotFirstWiring)
          IN  /\ Satisfies(a)
              /\ ObjectiveValue(objective, a)
                    = Cardinality(MuxNotFirstWiring)
    /\ (pc = "written" /\ gatesArg = AllNand) =>
          Satisfies(CircuitAssignment(MuxAllNandWiring))
    /\ (pc = "solved" /\ gatesArg = AllNand) =>
          ObjectiveValue(objective, asg) > Cardinality(MuxNotFirstWiring)

C8_Witness ==
    /\ pc = "solved"
    /\ truthArg = MuxTruth
    /\ gatesArg = AllNand
    /\ Wiring(asg) = MuxAllNandWiring
    /\ ObjectiveValue(objective, asg) = Cardinality(MuxNotFirstWiring) + 1

-----------------------------------------------------------------------------
(* The claims about solve_circuit_lp.                                      *)

\* the lines of a log that carry the marker of objective coefficient 1
MarkedLines(log) == SelectSeq(log, LAMBDA line : line[Len(line)] = Marker)

\* C5: the list solve_circuit_lp returns holds one entry per marked line of
\* the log SCIP wrote in this invocation, in the order of the log, and
\* nothing else: it is empty when no line is marked, and it never comes
\* from a log an earlier run left.
C5_ConnectIsTheLogOfThisRun ==
    spc = "returned" =>
        /\ scipLog # None
        /\ LET marked == MarkedLines(scipLog[1])
           IN  /\ Len(connect) = Len(marked)
               /\ \A x \in 1..Len(marked) :
                     /\ connect[x][1] = marked[x][1]
                     /\ IsIntLiteral(marked[x][Len(marked[x]) - 1])
                     /\ connect[x][2] = 1

C5_Witness ==
    /\ spc = "returned"
    /\ filenameArg = None
    /\ (<<"t">> \o LogSuffix) \in DOMAIN fs
    /\ Len(scipLog[1]) = 2
    /\ connect = << <<"1", 1>>, <<"u.1.2", 1>> >>

\* C6: with delete_lp and delete_log at their defaults, however
\* solve_circuit_lp ends, neither the .lp nor the .log file this invocation
\* created is left on disk.
C6_ArtifactsRemovedOnEveryExit ==
    (delete_lp /\ delete_log /\ spc \in {"returned", "raised"}) =>
        \A path \in {LpPath, LogPath} :
            path \in DOMAIN fs => fs[path].by = "earlier"

\* C7: the decoding loop never ends in an unhandled error: once
\* make_circuit_lp has returned, solve_circuit_lp raises neither IndexError
\* nor ValueError.
C7_DecodingNeverAborts ==
    ~(/\ spc = "raised"
      /\ pc = "written"
      /\ sexc \in {"IndexError", "ValueError"})

=============================================================================
